---- MODULE Spec2Model ----
(***************************************************************************)
(* Model of bingx_to_sheets.py: the credential loaders, the numeric        *)
(* normalizer (safe_float / safe_round), the position fetch, the prompt    *)
(* summary, the two sheet writers and the __main__ pipeline.               *)
(*                                                                         *)
(* Python values are records [t, n, d, s, c]: t is the Python type, n/d    *)
(* the value of a number as the fraction n/d (d > 0), s the text of a      *)
(* literal string, c the characters of a string the program takes apart.   *)
(***************************************************************************)
EXTENDS Integers, Sequences, FiniteSets, TLC

VARIABLES
    pc,            \* position of the run inside __main__ / the called function
    run,           \* number of the current run of the script (the clock)
    exitCode,      \* -1 while running, 0 after normal completion, 1 after sys.exit(1)
    fatal,         \* what made the run reach the outer except: [kind, at]
    credFile,      \* contents of google_credentials.json on disk
    tabs,          \* titles of the tabs of the spreadsheet
    cells,         \* cell contents of each tab: title -> sequence of rows
    ensureCalls,   \* per title, the ensure_sheet_exists calls made so far, all runs
    log,           \* the external requests issued in this run, in order
    positions,     \* value returned by get_positions
    fetchOutcome,  \* what client.fetch_positions() did in this run
    prompt,        \* value returned by generate_ai_trading_prompt (template, summary)
    rows,          \* the local 'rows' of the sheet writer that is running
    analysis,      \* value returned by send_to_perplexity_for_analysis
    postOutcome,   \* what requests.post(...) did in this run
    fnArgs,        \* arguments of a direct call of a helper function
    fnResult       \* outcome of that call

vars == <<pc, run, exitCode, fatal, credFile, tabs, cells, ensureCalls, log,
          positions, fetchOutcome, prompt, rows, analysis, postOutcome,
          fnArgs, fnResult>>

(***************************************************************************)
(* Bounds of the model.                                                    *)
(***************************************************************************)
MaxRuns == 2
MaxGridPositions == 2
MaxLines == 3

(***************************************************************************)
(* Python values.                                                          *)
(***************************************************************************)
PyNone == [t |-> "none", n |-> 0, d |-> 1, s |-> "", c |-> <<>>]
Missing == [t |-> "missing", n |-> 0, d |-> 1, s |-> "", c |-> <<>>]
PyInt(i) == [t |-> "int", n |-> i, d |-> 1, s |-> "", c |-> <<>>]
PyFloat(i, j) == [t |-> "float", n |-> i, d |-> j, s |-> "", c |-> <<>>]
PyStr(str) == [t |-> "str", n |-> 0, d |-> 1, s |-> str, c |-> <<>>]
PyText(chars) == [t |-> "text", n |-> 0, d |-> 1, s |-> "", c |-> chars]
PyBigInt == [t |-> "bigint", n |-> 0, d |-> 1, s |-> "", c |-> <<>>]
PyList == [t |-> "list", n |-> 0, d |-> 1, s |-> "", c |-> <<>>]
PyObject == [t |-> "object", n |-> 0, d |-> 1, s |-> "", c |-> <<>>]
PyTime(k) == [t |-> "time", n |-> k, d |-> 1, s |-> "", c |-> <<>>]

\* Outcome of a call: a returned value or a raised exception.
Return(v) == [raised |-> FALSE, exc |-> "", val |-> v]
Raise(e) == [raised |-> TRUE, exc |-> e, val |-> PyNone]

IsNumber(v) == v.t \in {"int", "float"}

\* Comparison and arithmetic of numbers n/d.
NumEq(a, b) == a.n * b.d = b.n * a.d
NumGt0(a) == a.n > 0
NumEq0(a) == a.n = 0
NumAdd(a, b) == PyFloat(a.n * b.d + b.n * a.d, a.d * b.d)

\* a / b * 100 ; Python raises ZeroDivisionError when b == 0.
NumDivTimes100(a, b) ==
    IF b.n = 0 THEN Raise("ZeroDivisionError")
    ELSE IF b.n > 0 THEN Return(PyFloat(a.n * b.d * 100, a.d * b.n))
    ELSE Return(PyFloat(-(a.n * b.d * 100), a.d * (-(b.n))))

Pow10(k) ==
    CASE k = 0 -> 1 [] k = 2 -> 100 [] k = 4 -> 10000 [] k = 8 -> 100000000

\* a / b rounded to the nearest integer, ties to even (b > 0).
RoundHalfEvenDiv(a, b) ==
    LET q == a \div b
        r == a % b
    IN  IF 2 * r < b THEN q
        ELSE IF 2 * r > b THEN q + 1
        ELSE IF q % 2 = 0 THEN q ELSE q + 1

\* round(x, k) of a float: unchanged when x already has at most k decimals.
PyRound(x, k) ==
    IF Pow10(k) % x.d = 0 THEN PyFloat(x.n, x.d)
    ELSE PyFloat(RoundHalfEvenDiv(x.n * Pow10(k), x.d), Pow10(k))

\* float(str): the numeric strings of the model and what they parse to.
ParseFloat(str) ==
    CASE str = "5"    -> Return(PyFloat(5, 1))
      [] str = "12.3" -> Return(PyFloat(123, 10))
      [] str = "-2.1" -> Return(PyFloat(-21, 10))
      [] str = "0"    -> Return(PyFloat(0, 1))
      [] OTHER        -> Raise("ValueError")

\* The builtin float(value).
PyFloatOf(value) ==
    CASE value.t = "float"  -> Return(value)
      [] value.t = "int"    -> Return(PyFloat(value.n, value.d))
      [] value.t = "bigint" -> Raise("OverflowError")
      [] value.t = "str"    -> ParseFloat(value.s)
      [] OTHER              -> Raise("TypeError")

\* safe_float: None and the TypeError / ValueError of float() give the default;
\* any other exception of float() escapes.
safe_float(value, default) ==
    IF value.t = "none" THEN Return(default)
    ELSE LET r == PyFloatOf(value)
         IN  IF r.raised /\ r.exc \in {"TypeError", "ValueError"}
             THEN Return(default)
             ELSE r

safe_round(value, decimals, default) ==
    LET num == safe_float(value, default)
    IN  IF num.raised THEN num
        ELSE IF ~IsNumber(num.val) THEN Raise("TypeError")
        ELSE Return(PyRound(num.val, decimals))

(***************************************************************************)
(* Positions as fetch_positions returns them: dicts whose fields may be    *)
(* absent, None, numbers, strings or anything else.                        *)
(***************************************************************************)
Zero == PyFloat(0, 1)

\* position.get(key, default)
Get(pos, key, default) == IF pos[key].t = "missing" THEN default ELSE pos[key]

\* safe_float(pos.get(key, 0))
FieldFloat(pos, key) == safe_float(Get(pos, key, PyInt(0)), Zero)

Position(symbol, contracts, notional, unrealized, realized) ==
    [symbol |-> symbol, side |-> PyStr("long"), contracts |-> contracts,
     notional |-> notional, unrealizedPnl |-> unrealized, realizedPnl |-> realized,
     entryPrice |-> PyFloat(100, 1), markPrice |-> PyInt(101),
     liquidationPrice |-> PyNone, initialMargin |-> Missing,
     marginRatio |-> PyFloat(5, 100), percentage |-> PyFloat(1234, 1000),
     leverage |-> PyInt(10), marginMode |-> PyStr("cross"), fundingRate |-> PyNone]

\* The first raised outcome of a sequence of outcomes, or Return(PyNone).
FirstRaised(outs) ==
    IF \E i \in 1..Len(outs) : outs[i].raised
    THEN outs[CHOOSE i \in 1..Len(outs) :
                 outs[i].raised /\ \A j \in 1..(i - 1) : ~outs[j].raised]
    ELSE Return(PyNone)

ContractsOf(list) == [i \in 1..Len(list) |-> FieldFloat(list[i], "contracts")]

\* The positions whose contracts are in the sequence 'chosen' (by index).
Filtered(list, contracts, Keep(_)) ==
    IF FirstRaised(contracts).raised THEN FirstRaised(contracts)
    ELSE Return(SelectSeq(list, LAMBDA p : Keep(FieldFloat(p, "contracts").val)))

\* [p for p in positions if safe_float(p.get('contracts', 0)) > 0]
ActiveOf(list) == Filtered(list, ContractsOf(list), NumGt0)

\* [p for p in positions if safe_float(p.get('contracts', 0)) == 0]
InactiveOf(list) == Filtered(list, ContractsOf(list), NumEq0)

\* The percentage computed without the test of the notional.
PnlPctUnguarded(total_pnl, notional) == NumDivTimes100(total_pnl, notional)

\* (total_pnl / notional * 100) if notional > 0 else 0
PnlPct(total_pnl, notional) ==
    IF NumGt0(notional) THEN NumDivTimes100(total_pnl, notional) ELSE Return(PyInt(0))

(***************************************************************************)
(* write_all_positions_to_sheet: the grid.                                 *)
(***************************************************************************)
SheetRowCount == 1000
SheetColumnCount == 20

headers ==
    <<PyStr("Timestamp"), PyStr("Symbol"), PyStr("Side"), PyStr("Status"),
      PyStr("Entry Price"), PyStr("Mark Price"), PyStr("Contracts"),
      PyStr("Notional Value"), PyStr("Unrealized P&L"), PyStr("Realized P&L"),
      PyStr("Total P&L"), PyStr("P&L %"), PyStr("Leverage"), PyStr("Margin Mode"),
      PyStr("Initial Margin"), PyStr("Liquidation Price"), PyStr("Funding Rate"),
      PyStr("Margin Ratio"), PyStr("Percentage")>>

NoPositionsRow(timestamp) ==
    <<timestamp, PyStr("NO POSITIONS")>> \o [i \in 1..17 |-> PyStr("N/A")]

\* "ACTIVE" if contracts > 0 else "CLOSED"
StatusOf(contracts) == IF NumGt0(contracts) THEN PyStr("ACTIVE") ELSE PyStr("CLOSED")

\* The outcomes as a list of values, or the first exception raised.
Collect(outs) ==
    IF FirstRaised(outs).raised THEN FirstRaised(outs)
    ELSE Return([i \in 1..Len(outs) |-> outs[i].val])

\* The safe_float(pos.get(..., 0)) assignments at the top of the loop body.
PositionReads(pos) ==
    [contracts |-> FieldFloat(pos, "contracts"),
     unrealized |-> FieldFloat(pos, "unrealizedPnl"),
     realized |-> FieldFloat(pos, "realizedPnl"),
     notional |-> FieldFloat(pos, "notional"),
     entry_price |-> FieldFloat(pos, "entryPrice"),
     mark_price |-> FieldFloat(pos, "markPrice"),
     liquidation_price |-> FieldFloat(pos, "liquidationPrice"),
     initial_margin |-> FieldFloat(pos, "initialMargin"),
     margin_ratio |-> FieldFloat(pos, "marginRatio"),
     percentage |-> FieldFloat(pos, "percentage")]

\* The reads in the order the code performs them.
ReadOrder(r) ==
    <<r.contracts, r.unrealized, r.realized, r.notional, r.entry_price,
      r.mark_price, r.liquidation_price, r.initial_margin, r.margin_ratio,
      r.percentage>>

\* rows.append([...]): the nineteen cells of a data row.
PositionCells(pos, timestamp, r, total_pnl, pnl_pct) ==
    <<Return(timestamp),
      Return(Get(pos, "symbol", PyStr(""))),
      Return(Get(pos, "side", PyStr(""))),
      Return(StatusOf(r.contracts.val)),
      safe_round(r.entry_price.val, 8, Zero),
      safe_round(r.mark_price.val, 8, Zero),
      safe_round(r.contracts.val, 8, Zero),
      safe_round(r.notional.val, 4, Zero),
      safe_round(r.unrealized.val, 8, Zero),
      safe_round(r.realized.val, 8, Zero),
      safe_round(total_pnl, 8, Zero),
      safe_round(pnl_pct, 2, Zero),
      Return(Get(pos, "leverage", PyStr(""))),
      Return(Get(pos, "marginMode", PyStr(""))),
      safe_round(r.initial_margin.val, 4, Zero),
      safe_round(r.liquidation_price.val, 2, Zero),
      Return(Get(pos, "fundingRate", PyStr(""))),
      safe_round(r.margin_ratio.val, 4, Zero),
      safe_round(r.percentage.val, 2, Zero)>>

\* pnl_pct = ...; rows.append([...])
RowWithPnl(pos, timestamp, r, total_pnl, pnl_pct) ==
    IF pnl_pct.raised THEN pnl_pct
    ELSE Collect(PositionCells(pos, timestamp, r, total_pnl, pnl_pct.val))

\* total_pnl = unrealized + realized and what follows it
RowOfReads(pos, timestamp, r, total_pnl) ==
    RowWithPnl(pos, timestamp, r, total_pnl, PnlPct(total_pnl, r.notional.val))

\* The body of the loop over the positions: one row, or the exception raised.
PositionRowFrom(pos, timestamp, r) ==
    IF FirstRaised(ReadOrder(r)).raised THEN FirstRaised(ReadOrder(r))
    ELSE RowOfReads(pos, timestamp, r, NumAdd(r.unrealized.val, r.realized.val))

PositionRow(pos, timestamp) == PositionRowFrom(pos, timestamp, PositionReads(pos))

\* A loop that leaves the closed positions out of the grid.
DataRowsActiveOnly(list, timestamp) ==
    Collect([i \in 1..Len(SelectSeq(list, LAMBDA p : NumGt0(PositionReads(p).contracts.val))) |->
                PositionRow(SelectSeq(list, LAMBDA p : NumGt0(PositionReads(p).contracts.val))[i],
                            timestamp)])

\* for pos in positions: rows.append([...])
DataRows(list, timestamp) ==
    Collect([i \in 1..Len(list) |-> PositionRow(list[i], timestamp)])

\* [headers] + the rows of the loop, or the exception the loop raised
WithHeaders(data) == IF data.raised THEN data ELSE Return(<<headers>> \o data.val)

\* rows = [headers] + (the sentinel row | one row per position)
PositionsGrid(list, timestamp) ==
    IF list = <<>> THEN Return(<<headers, NoPositionsRow(timestamp)>>)
    ELSE WithHeaders(DataRows(list, timestamp))

(***************************************************************************)
(* format_all_positions_for_analysis and generate_ai_trading_prompt. The   *)
(* text is kept as its parts: the two groups and the figures printed.      *)
(***************************************************************************)
\* f"{x:.2f}"
Format2f(x) ==
    [t |-> "str2f", n |-> RoundHalfEvenDiv(x.n * 100, x.d), d |-> 100, s |-> "", c |-> <<>>]

\* The figures of the block of one active position.
ActiveFigures(pos, r, margin, total_pnl, pnl_pct) ==
    [symbol |-> pos.symbol, side |-> pos.side, contracts |-> pos.contracts,
     notional |-> Format2f(r.notional.val),
     total_pnl |-> Format2f(total_pnl),
     pnl_pct |-> Format2f(pnl_pct),
     unrealized |-> Format2f(r.unrealized.val),
     realized |-> Format2f(r.realized.val),
     margin |-> Format2f(margin)]

ActiveEntryWithPnl(pos, r, margin, total_pnl, pnl_pct) ==
    IF pnl_pct.raised THEN pnl_pct
    ELSE IF margin.raised THEN margin
    ELSE Return(ActiveFigures(pos, r, margin.val, total_pnl, pnl_pct.val))

ActiveEntryOfReads(pos, r, total_pnl) ==
    ActiveEntryWithPnl(pos, r, r.initial_margin, total_pnl,
                       PnlPct(total_pnl, r.notional.val))

ActiveEntryFrom(pos, r) ==
    IF FirstRaised(<<r.unrealized, r.realized, r.notional>>).raised
    THEN FirstRaised(<<r.unrealized, r.realized, r.notional>>)
    ELSE ActiveEntryOfReads(pos, r, NumAdd(r.unrealized.val, r.realized.val))

\* The block of one active position: unrealized, realized, total_pnl,
\* notional, pnl_pct and the f-string.
ActiveEntry(pos) == ActiveEntryFrom(pos, PositionReads(pos))

InactiveEntryFrom(pos, realized) ==
    IF realized.raised THEN realized
    ELSE Return([symbol |-> pos.symbol, realized |-> Format2f(realized.val)])

\* The line of one closed position.
InactiveEntry(pos) == InactiveEntryFrom(pos, FieldFloat(pos, "realizedPnl"))

NoSummary == [empty |-> TRUE, active |-> <<>>, inactive |-> <<>>]

\* The two loops over the two groups.
SummaryOfGroups(active, inactive) ==
    IF active.raised THEN active
    ELSE IF Collect([i \in 1..Len(active.val) |-> ActiveEntry(active.val[i])]).raised
    THEN Collect([i \in 1..Len(active.val) |-> ActiveEntry(active.val[i])])
    ELSE IF Collect([i \in 1..Len(inactive.val) |-> InactiveEntry(inactive.val[i])]).raised
    THEN Collect([i \in 1..Len(inactive.val) |-> InactiveEntry(inactive.val[i])])
    ELSE Return([empty |-> FALSE,
                 active |-> [i \in 1..Len(active.val) |-> ActiveEntry(active.val[i]).val],
                 inactive |-> [i \in 1..Len(inactive.val) |->
                                  InactiveEntry(inactive.val[i]).val]])

format_all_positions_for_analysis(list) ==
    IF list = <<>> THEN Return(NoSummary)
    ELSE SummaryOfGroups(ActiveOf(list), InactiveOf(list))

PromptOf(active_positions, positions_summary) ==
    IF active_positions.raised THEN active_positions
    ELSE IF positions_summary.raised THEN positions_summary
    ELSE Return([template |-> IF active_positions.val = <<>>
                              THEN "new_entries" ELSE "portfolio",
                 summary |-> positions_summary.val])

\* The prompt: which of the two templates, and the summary embedded in it.
generate_ai_trading_prompt(list) ==
    PromptOf(ActiveOf(list), format_all_positions_for_analysis(list))

(***************************************************************************)
(* Text: a Python str kept as its sequence of characters.                  *)
(***************************************************************************)
Whitespace == {" ", "\n", "\t"}

StartsWith(str, sep) == Len(str) >= Len(sep) /\ SubSeq(str, 1, Len(sep)) = sep

RECURSIVE SplitFrom(_, _, _)
SplitFrom(str, sep, cur) ==
    IF str = <<>> THEN <<cur>>
    ELSE IF StartsWith(str, sep)
         THEN <<cur>> \o SplitFrom(SubSeq(str, Len(sep) + 1, Len(str)), sep, <<>>)
         ELSE SplitFrom(Tail(str), sep, Append(cur, Head(str)))

\* str.split(sep)
Split(str, sep) == SplitFrom(str, sep, <<>>)

RECURSIVE LStrip(_)
LStrip(str) ==
    IF str # <<>> /\ Head(str) \in Whitespace THEN LStrip(Tail(str)) ELSE str

RECURSIVE RStrip(_)
RStrip(str) ==
    IF str # <<>> /\ str[Len(str)] \in Whitespace
    THEN RStrip(SubSeq(str, 1, Len(str) - 1)) ELSE str

\* str.strip()
Strip(str) == LStrip(RStrip(str))

RECURSIVE Flatten(_)
Flatten(seqs) == IF seqs = <<>> THEN <<>> ELSE Head(seqs) \o Flatten(Tail(seqs))

\* The two sentinel strings of send_to_perplexity_for_analysis.
ErrRequestText ==
    <<"E", "r", "r", "o", "r", ":", " ", "C", "o", "u", "l", "d", " ", "n", "o",
      "t", " ", "r", "e", "t", "r", "i", "e", "v", "e", " ", "a", "n", "a", "l",
      "y", "s", "i", "s", " ", "f", "r", "o", "m", " ", "P", "e", "r", "p", "l",
      "e", "x", "i", "t", "y">>
ErrKeyText ==
    <<"E", "r", "r", "o", "r", ":", " ", "'", "c", "h", "o", "i", "c", "e", "s", "'">>
ErrJsonText ==
    <<"E", "r", "r", "o", "r", ":", " ", "E", "x", "p", "e", "c", "t", "i", "n",
      "g", " ", "v", "a", "l", "u", "e">>

ErrOverflowText ==
    <<"E", "r", "r", "o", "r", ":", " ", "i", "n", "t", " ", "t", "o", "o", " ",
      "l", "a", "r", "g", "e", " ", "t", "o", " ", "c", "o", "n", "v", "e", "r",
      "t", " ", "t", "o", " ", "f", "l", "o", "a", "t">>

(***************************************************************************)
(* write_analysis_to_sheet: the grid.                                      *)
(***************************************************************************)
\* Rows of one paragraph that keep the lines as they are, unstripped.
ParagraphRowsRaw(para) ==
    LET lines == Split(para, <<"\n">>)
    IN  [i \in 1..Len(lines) |-> <<PyText(lines[i])>>]

\* for line in para.split('\n'): if line.strip(): rows.append([line.strip()])
ParagraphRows(para) ==
    LET lines == Split(para, <<"\n">>)
        kept == SelectSeq(lines, LAMBDA line : Strip(line) # <<>>)
    IN  [i \in 1..Len(kept) |-> <<PyText(Strip(kept[i]))>>]

AnalysisPreamble(timestamp, now) ==
    <<<<PyStr("Timestamp"), timestamp>>,
      <<PyStr("Analysis Date"), now>>,
      <<PyStr(""), PyStr("")>>,
      <<PyStr("Analysis Results"), PyStr("")>>>>

\* rows = the four fixed rows + one single-cell row per non-blank line
AnalysisRows(text, timestamp, now) ==
    IF text.t # "text" THEN Raise("AttributeError")
    ELSE LET paragraphs == Split(text.c, <<"\n", "\n">>)
             kept == SelectSeq(paragraphs, LAMBDA para : Strip(para) # <<>>)
         IN  Return(AnalysisPreamble(timestamp, now)
                    \o Flatten([i \in 1..Len(kept) |-> ParagraphRows(kept[i])]))

(***************************************************************************)
(* The spreadsheet service: tabs and their cells. A tab's contents are a   *)
(* sequence of rows, without trailing blank cells and trailing blank rows. *)
(***************************************************************************)
Blank == PyStr("")

RECURSIVE TrimRow(_)
TrimRow(row) ==
    IF row # <<>> /\ row[Len(row)] = Blank
    THEN TrimRow(SubSeq(row, 1, Len(row) - 1)) ELSE row

RECURSIVE TrimRows(_)
TrimRows(grid) ==
    IF grid # <<>> /\ grid[Len(grid)] = <<>>
    THEN TrimRows(SubSeq(grid, 1, Len(grid) - 1)) ELSE grid

Normalize(grid) == TrimRows([i \in 1..Len(grid) |-> TrimRow(grid[i])])

Max(a, b) == IF a >= b THEN a ELSE b

\* values().clear(range = A1 : <column nCols><row nRows>)
ClearRange(content, nRows, nCols) ==
    Normalize([i \in 1..Len(content) |->
                  [j \in 1..Len(content[i]) |->
                      IF i <= nRows /\ j <= nCols THEN Blank ELSE content[i][j]]])

\* values().update(range = A1, valueInputOption = RAW, values = grid)
WriteAtA1(content, grid) ==
    Normalize([i \in 1..Max(Len(content), Len(grid)) |->
                  LET old == IF i <= Len(content) THEN content[i] ELSE <<>>
                      new == IF i <= Len(grid) THEN grid[i] ELSE <<>>
                  IN  [j \in 1..Max(Len(old), Len(new)) |->
                          IF j <= Len(new) THEN new[j] ELSE old[j]]])

(***************************************************************************)
(* The inputs of the model: what the environment, the exchange and the     *)
(* text-generation service can hand to the program.                        *)
(***************************************************************************)
SeqsUpTo(S, k) == UNION {[1..m -> S] : m \in 0..k}

\* Where a key can come from: the environment, the JSON file, or nowhere.
KeySources == {"env", "file", "file_incomplete", "file_invalid_json", "none"}
CredentialContents == {"valid", "garbage"}
CredentialEnv == {"unset"} \cup CredentialContents
CredentialFiles == {"absent"} \cup CredentialContents

ActivePosition ==
    Position(PyStr("BTC-USDT"), PyFloat(5, 10), PyInt(1000), PyFloat(123, 10), PyFloat(-21, 10))
ClosedPosition ==
    Position(PyStr("ETH-USDT"), PyInt(0), PyNone, PyNone, PyStr("5"))
ClosedOverflowPosition ==
    Position(PyStr("SOL-USDT"), PyInt(0), PyInt(0), PyBigInt, Zero)
ActiveOverflowPosition ==
    Position(PyStr("XRP-USDT"), PyInt(2), PyInt(7), PyInt(1), PyBigInt)

\* What fetch_positions() can return in a run of the pipeline.
FetchedLists ==
    {<<>>, <<ActivePosition>>, <<ClosedPosition>>, <<ActivePosition, ClosedPosition>>,
     <<ActiveOverflowPosition>>, <<ActivePosition, ClosedOverflowPosition>>}

\* The position lists the grid and the summary are computed for.
GridSymbols == {PyStr("BTC-USDT"), PyStr("ETH-USDT")}
GridContracts == {PyFloat(5, 10), PyInt(0), PyInt(-1)}
GridNotionals == {PyInt(7), PyInt(0), PyInt(-2), Missing, PyStr("abc")}
GridPositions ==
    {Position(sy, c, n, PyFloat(123, 10), PyFloat(-21, 10)) :
        sy \in GridSymbols, c \in GridContracts, n \in GridNotionals}
    \cup {ClosedPosition, ClosedOverflowPosition, ActiveOverflowPosition}

\* Lines of narrative text and the texts made of them.
LineHeading == <<"#", "#", " ", "S", "u", "m", "m", "a", "r", "y">>
LineBullet == <<"-", " ", "B", "u", "y", " ", "B", "T", "C">>
LineBold == <<"*", "*", "C", "o", "n", "f", "i", "d", "e", "n", "c", "e", ":", " ", "h", "i", "g", "h", "*", "*">>
LineTable == <<"|", " ", "a", " ", "|", " ", "b", " ", "|">>
LineShort == <<"t", "i", "n", "y">>
LinePlain == <<" ", "P", "l", "a", "i", "n", " ", "t", "e", "x", "t", " ", "l", "i", "n", "e", " ">>
LineEmpty == <<>>
NarrativeLines ==
    {LineHeading, LineBullet, LineBold, LineTable, LineShort, LinePlain, LineEmpty}
LineSeparators == {<<"\n">>, <<"\n", "\n">>}

RECURSIVE TextsOf(_)
TextsOf(k) ==
    IF k = 1 THEN NarrativeLines
    ELSE {t \o sep \o l : t \in TextsOf(k - 1), sep \in LineSeparators, l \in NarrativeLines}

NarrativeTexts == UNION {TextsOf(k) : k \in 1..MaxLines}

\* The narratives the text-generation service returns in a run of the pipeline.
PipelineTexts == {LineHeading \o <<"\n">> \o LineBullet, LinePlain}

\* What requests.post(...) and the reading of its response can do.
PostOutcomes ==
    {"ok", "http_error", "connection_error", "timeout", "invalid_json",
     "invalid_json_valueerror", "no_choices", "null_content"}
PostFailures == PostOutcomes \ {"ok", "null_content"}

TabNames == {"All Positions", "Analysis"}
StaleContent == <<<<PyStr("stale"), PyStr("stale")>>, <<PyStr("stale")>>>>
InitialContents == {<<>>, StaleContent}

\* What an earlier run of the script has left in the positions tab when the
\* exchange returned as many positions as the tab is created with rows: the
\* header and one row per position, the last of them in row 1001.
ManyClosedPositions == [i \in 1..SheetRowCount |-> ClosedPosition]
EarlierRunGrid == Normalize(PositionsGrid(ManyClosedPositions, PyTime(0)).val)

(***************************************************************************)
(* The functions of the script that read the environment or call a         *)
(* service, as functions of what the environment or the service does.      *)
(***************************************************************************)
load_api_keys(source) ==
    CASE source = "env"  -> Return(PyStr("keys"))
      [] source = "file" -> Return(PyStr("keys"))
      [] source = "file_incomplete"   -> Raise("Exception")
      [] source = "file_invalid_json" -> Raise("JSONDecodeError")
      [] OTHER -> Raise("Exception")

load_perplexity_api_key(source) ==
    CASE source = "env"  -> Return(PyStr("key"))
      [] source = "file" -> Return(PyStr("key"))
      [] source = "file_incomplete"   -> Raise("Exception")
      [] source = "file_invalid_json" -> Raise("JSONDecodeError")
      [] OTHER -> Raise("Exception")

\* load_google_credentials: the outcome and google_credentials.json afterwards.
load_google_credentials(env, file) ==
    IF env # "unset" THEN [out |-> Return(PyNone), file |-> env]
    ELSE IF file = "absent" THEN [out |-> Raise("Exception"), file |-> file]
    ELSE [out |-> Return(PyNone), file |-> file]

\* Credentials.from_service_account_file('google_credentials.json', ...)
from_service_account_file(file) ==
    IF file = "valid" THEN Return(PyStr("creds")) ELSE Raise("ValueError")

\* A get_positions without the try / except around the fetch.
get_positions_unguarded(fetched, list) ==
    IF ~fetched THEN Raise("NetworkError")
    ELSE IF FirstRaised(ContractsOf(list)).raised THEN FirstRaised(ContractsOf(list))
    ELSE Return(list)

\* get_positions: fetched is FALSE when client.fetch_positions() throws.
get_positions(fetched, list) ==
    IF ~fetched THEN Return(<<>>)
    ELSE IF FirstRaised(ContractsOf(list)).raised THEN Return(<<>>)
    ELSE Return(list)

\* A send_to_perplexity_for_analysis whose only handler is the one for
\* requests.exceptions.RequestException.
send_to_perplexity_request_errors_only(list, outcome, text) ==
    IF generate_ai_trading_prompt(list).raised THEN generate_ai_trading_prompt(list)
    ELSE CASE outcome = "ok" -> Return(PyText(text))
           [] outcome = "null_content" -> Return(PyNone)
           [] outcome \in {"http_error", "connection_error", "timeout", "invalid_json"}
                -> Return(PyText(ErrRequestText))
           [] outcome = "invalid_json_valueerror" -> Raise("ValueError")
           [] OTHER -> Raise("KeyError")

\* send_to_perplexity_for_analysis: what it returns for each outcome of the POST.
send_to_perplexity_for_analysis(list, outcome, text) ==
    IF generate_ai_trading_prompt(list).raised THEN Return(PyText(ErrOverflowText))
    ELSE CASE outcome = "ok" -> Return(PyText(text))
           [] outcome = "null_content" -> Return(PyNone)
           [] outcome \in {"http_error", "connection_error", "timeout", "invalid_json"}
                -> Return(PyText(ErrRequestText))
           [] outcome = "invalid_json_valueerror" -> Return(PyText(ErrJsonText))
           [] OTHER -> Return(PyText(ErrKeyText))

SentinelStrings ==
    {PyText(ErrRequestText), PyText(ErrJsonText), PyText(ErrKeyText),
     PyText(ErrOverflowText)}

\* if sheet['properties']['title'] == sheet_name for some sheet
TitleExists(title, titles) == title \in titles

(***************************************************************************)
(* The run of the script.                                                  *)
(***************************************************************************)
At(fn, at) == [fn |-> fn, at |-> at]
Request(op, tab, ok) == [op |-> op, tab |-> tab, ok |-> ok]

NoFatal == [kind |-> "none", at |-> "none"]
NoPrompt == [template |-> "none", summary |-> NoSummary]
NoCall == [fn |-> "none"]

\* One call of ensure_sheet_exists: whether the tab existed when it was made,
\* how many addSheet requests it issued, whether it returned True.
EnsureCall(existed, adds, ok) == [existed |-> existed, adds |-> adds, ok |-> ok]

\* Whether the POST came back with a 2xx response.
PostAnswered(outcome) == outcome \notin {"http_error", "connection_error", "timeout"}

Writers == {"write_all_positions_to_sheet", "write_analysis_to_sheet"}
SheetName(w) == IF w = "write_all_positions_to_sheet" THEN "All Positions" ELSE "Analysis"
\* The last column of the range the writer clears: S (19) or B (2).
ClearColumns(w) == IF w = "write_all_positions_to_sheet" THEN 19 ELSE 2
ClearRows == 1000

\* The state of one run before its first statement.
RunStart ==
    /\ exitCode = -1
    /\ fatal = NoFatal
    /\ log = <<>>
    /\ positions = <<>>
    /\ fetchOutcome = "none"
    /\ prompt = NoPrompt
    /\ rows = <<>>
    /\ analysis = PyNone
    /\ postOutcome = "none"

Init ==
    /\ pc = At("main", "load_api_keys")
    /\ run = 1
    /\ RunStart
    /\ credFile \in CredentialFiles
    /\ tabs \in SUBSET TabNames
    /\ cells \in [TabNames -> InitialContents \cup {EarlierRunGrid}]
    /\ cells["Analysis"] \in InitialContents
    /\ \A t \in TabNames \ tabs : cells[t] = <<>>
    /\ ensureCalls = [t \in TabNames |-> <<>>]
    /\ fnArgs = NoCall
    /\ fnResult = Return(PyNone)

\* except Exception in __main__: print, traceback, sys.exit(1)
Fatal(kind, at) ==
    /\ pc' = At("main", "exited")
    /\ exitCode' = 1
    /\ fatal' = [kind |-> kind, at |-> at]

LoadApiKeys ==
    /\ pc = At("main", "load_api_keys")
    /\ \E source \in KeySources :
          IF load_api_keys(source).raised
          THEN Fatal("configuration", "load_api_keys")
          ELSE /\ pc' = At("main", "load_perplexity_api_key")
               /\ UNCHANGED <<exitCode, fatal>>
    /\ UNCHANGED <<run, credFile, tabs, cells, ensureCalls, log, positions,
                   fetchOutcome, prompt, rows, analysis, postOutcome, fnArgs, fnResult>>

LoadPerplexityApiKey ==
    /\ pc = At("main", "load_perplexity_api_key")
    /\ \E source \in KeySources :
          IF load_perplexity_api_key(source).raised
          THEN Fatal("configuration", "load_perplexity_api_key")
          ELSE /\ pc' = At("main", "get_positions")
               /\ UNCHANGED <<exitCode, fatal>>
    /\ UNCHANGED <<run, credFile, tabs, cells, ensureCalls, log, positions,
                   fetchOutcome, prompt, rows, analysis, postOutcome, fnArgs, fnResult>>

\* A fetch that is attempted a second time when the first attempt has failed.
GetPositionsWithRetry ==
    /\ pc = At("main", "get_positions")
    /\ \E fetched \in BOOLEAN, list \in FetchedLists :
          /\ (~fetched => list = <<>>)
          /\ log' = Append(log, Request("fetch_positions", "", fetched))
          /\ fetchOutcome' = IF fetched THEN "returned" ELSE "threw"
          /\ positions' = list
          /\ pc' = IF ~fetched /\ log = <<>>
                   THEN At("main", "get_positions")
                   ELSE At("main", "print_ai_prompt_section")
    /\ UNCHANGED <<run, exitCode, fatal, credFile, tabs, cells, ensureCalls, prompt,
                   rows, analysis, postOutcome, fnArgs, fnResult>>

\* positions = get_positions(api_key, api_secret)
GetPositions ==
    /\ pc = At("main", "get_positions")
    /\ \E fetched \in BOOLEAN, list \in FetchedLists :
          LET out == get_positions(fetched, list)
          IN  /\ (~fetched => list = <<>>)
              /\ log' = Append(log, Request("fetch_positions", "", fetched))
              /\ fetchOutcome' = IF fetched THEN "returned" ELSE "threw"
              /\ IF out.raised
                 THEN /\ Fatal("upstream", "get_positions")
                      /\ UNCHANGED positions
                 ELSE /\ positions' = out.val
                      /\ pc' = At("main", "print_ai_prompt_section")
                      /\ UNCHANGED <<exitCode, fatal>>
    /\ UNCHANGED <<run, credFile, tabs, cells, ensureCalls, prompt, rows, analysis,
                   postOutcome, fnArgs, fnResult>>

\* print_all_positions_detailed, print_ai_prompt_section, save_ai_prompt_to_file
PrintAndSavePrompt ==
    /\ pc = At("main", "print_ai_prompt_section")
    /\ LET out == generate_ai_trading_prompt(positions)
       IN  IF out.raised
           THEN /\ Fatal("unexpected", "print_ai_prompt_section")
                /\ UNCHANGED prompt
           ELSE /\ prompt' = out.val
                /\ pc' = At("main", "load_google_credentials")
                /\ UNCHANGED <<exitCode, fatal>>
    /\ UNCHANGED <<run, credFile, tabs, cells, ensureCalls, log, positions,
                   fetchOutcome, rows, analysis, postOutcome, fnArgs, fnResult>>

\* load_google_credentials, Credentials.from_service_account_file, build
LoadGoogleCredentials ==
    /\ pc = At("main", "load_google_credentials")
    /\ \E env \in CredentialEnv :
          LET loaded == load_google_credentials(env, credFile)
          IN  /\ credFile' = loaded.file
              /\ IF loaded.out.raised
                 THEN Fatal("configuration", "load_google_credentials")
                 ELSE IF from_service_account_file(loaded.file).raised
                 THEN Fatal("configuration", "from_service_account_file")
                 ELSE /\ pc' = At("write_all_positions_to_sheet", "get")
                      /\ UNCHANGED <<exitCode, fatal>>
    /\ UNCHANGED <<run, tabs, cells, ensureCalls, log, positions, fetchOutcome,
                   prompt, rows, analysis, postOutcome, fnArgs, fnResult>>

(***************************************************************************)
(* The sheet writers. Each request to the spreadsheet service is one step; *)
(* a request that fails raises, the writer prints and re-raises, and the   *)
(* outer handler of __main__ exits.                                        *)
(***************************************************************************)
\* A title test that never finds the tab.
EnsureGetAlwaysCreates(w) ==
    /\ pc = At(w, "get")
    /\ \E ok \in BOOLEAN :
          /\ log' = Append(log, Request("get", "", ok))
          /\ ensureCalls' = [ensureCalls EXCEPT ![SheetName(w)] =
                                Append(@, EnsureCall(SheetName(w) \in tabs, 0, FALSE))]
          /\ IF ~ok THEN Fatal("upstream", w)
             ELSE /\ pc' = At(w, "addSheet")
                  /\ UNCHANGED <<exitCode, fatal>>
    /\ UNCHANGED <<run, credFile, tabs, cells, positions, fetchOutcome,
                   prompt, rows, analysis, postOutcome, fnArgs, fnResult>>

\* ensure_sheet_exists: spreadsheets().get(...) and the search for the title
EnsureGet(w) ==
    /\ pc = At(w, "get")
    /\ \E ok \in BOOLEAN :
          /\ log' = Append(log, Request("get", "", ok))
          /\ ensureCalls' = [ensureCalls EXCEPT ![SheetName(w)] =
                                Append(@, EnsureCall(SheetName(w) \in tabs, 0,
                                                     ok /\ TitleExists(SheetName(w), tabs)))]
          /\ IF ~ok
             THEN Fatal("upstream", w)
             ELSE IF TitleExists(SheetName(w), tabs)
             THEN /\ pc' = At(w, "rows")
                  /\ UNCHANGED <<exitCode, fatal>>
             ELSE /\ pc' = At(w, "addSheet")
                  /\ UNCHANGED <<exitCode, fatal>>
    /\ UNCHANGED <<run, credFile, tabs, cells, positions, fetchOutcome,
                   prompt, rows, analysis, postOutcome, fnArgs, fnResult>>

\* ensure_sheet_exists: batchUpdate(addSheet). The service refuses a second
\* tab with a title that exists.
EnsureAdd(w) ==
    /\ pc = At(w, "addSheet")
    /\ \E ok \in BOOLEAN :
          /\ (ok => SheetName(w) \notin tabs)
          /\ log' = Append(log, Request("addSheet", SheetName(w), ok))
          /\ ensureCalls' = [ensureCalls EXCEPT ![SheetName(w)] =
                                [@ EXCEPT ![Len(@)] = EnsureCall(@.existed, 1, ok)]]
          /\ IF ~ok
             THEN /\ Fatal("upstream", w)
                  /\ UNCHANGED <<tabs, cells>>
             ELSE /\ tabs' = tabs \cup {SheetName(w)}
                  /\ cells' = [cells EXCEPT ![SheetName(w)] = <<>>]
                  /\ pc' = At(w, "rows")
                  /\ UNCHANGED <<exitCode, fatal>>
    /\ UNCHANGED <<run, credFile, positions, fetchOutcome, prompt, rows,
                   analysis, postOutcome, fnArgs, fnResult>>

\* write_all_positions_to_sheet: headers, rows = [headers], the loop
BuildPositionRows ==
    /\ pc = At("write_all_positions_to_sheet", "rows")
    /\ LET out == PositionsGrid(positions, PyTime(run))
       IN  IF out.raised
           THEN /\ Fatal("unexpected", "write_all_positions_to_sheet")
                /\ UNCHANGED rows
           ELSE /\ rows' = out.val
                /\ pc' = At("write_all_positions_to_sheet", "clear")
                /\ UNCHANGED <<exitCode, fatal>>
    /\ UNCHANGED <<run, credFile, tabs, cells, ensureCalls, log, positions,
                   fetchOutcome, prompt, analysis, postOutcome, fnArgs, fnResult>>

\* write_analysis_to_sheet: paragraphs, rows, the two loops
BuildAnalysisRows ==
    /\ pc = At("write_analysis_to_sheet", "rows")
    /\ LET out == AnalysisRows(analysis, PyTime(run), PyTime(run))
       IN  IF out.raised
           THEN /\ Fatal("unexpected", "write_analysis_to_sheet")
                /\ UNCHANGED rows
           ELSE /\ rows' = out.val
                /\ pc' = At("write_analysis_to_sheet", "clear")
                /\ UNCHANGED <<exitCode, fatal>>
    /\ UNCHANGED <<run, credFile, tabs, cells, ensureCalls, log, positions,
                   fetchOutcome, prompt, analysis, postOutcome, fnArgs, fnResult>>

\* A writer that goes on to the update when the clear has failed.
ClearIgnoringFailure(w) ==
    /\ pc = At(w, "clear")
    /\ \E ok \in BOOLEAN :
          /\ (ok => SheetName(w) \in tabs)
          /\ log' = Append(log, Request("clear", SheetName(w), ok))
          /\ cells' = IF ok THEN [cells EXCEPT ![SheetName(w)] =
                                    ClearRange(@, ClearRows, ClearColumns(w))]
                      ELSE cells
          /\ pc' = At(w, "update")
    /\ UNCHANGED <<run, exitCode, fatal, credFile, tabs, ensureCalls, positions,
                   fetchOutcome, prompt, rows, analysis, postOutcome, fnArgs, fnResult>>

\* values().clear(range = '<tab>!A1:S1000' | '<tab>!A1:B1000')
Clear(w) ==
    /\ pc = At(w, "clear")
    /\ \E ok \in BOOLEAN :
          /\ (ok => SheetName(w) \in tabs)
          /\ log' = Append(log, Request("clear", SheetName(w), ok))
          /\ IF ~ok
             THEN /\ Fatal("upstream", w)
                  /\ UNCHANGED cells
             ELSE /\ cells' = [cells EXCEPT ![SheetName(w)] =
                                  ClearRange(@, ClearRows, ClearColumns(w))]
                  /\ pc' = At(w, "update")
                  /\ UNCHANGED <<exitCode, fatal>>
    /\ UNCHANGED <<run, credFile, tabs, ensureCalls, positions, fetchOutcome,
                   prompt, rows, analysis, postOutcome, fnArgs, fnResult>>

\* A writer that swallows the failure of the update instead of re-raising.
UpdateSwallowingFailure(w) ==
    /\ pc = At(w, "update")
    /\ \E ok \in BOOLEAN :
          /\ (ok => SheetName(w) \in tabs)
          /\ log' = Append(log, Request("update", SheetName(w), ok))
          /\ cells' = IF ok THEN [cells EXCEPT ![SheetName(w)] = WriteAtA1(@, rows)]
                      ELSE cells
          /\ pc' = IF w = "write_all_positions_to_sheet"
                   THEN At("main", "send_to_perplexity_for_analysis")
                   ELSE At("main", "completed")
    /\ UNCHANGED <<run, exitCode, fatal, credFile, tabs, ensureCalls, positions,
                   fetchOutcome, prompt, rows, analysis, postOutcome, fnArgs, fnResult>>

\* values().update(range = '<tab>!A1', valueInputOption = 'RAW', values = rows)
Update(w) ==
    /\ pc = At(w, "update")
    /\ \E ok \in BOOLEAN :
          /\ (ok => SheetName(w) \in tabs)
          /\ log' = Append(log, Request("update", SheetName(w), ok))
          /\ IF ~ok
             THEN /\ Fatal("upstream", w)
                  /\ UNCHANGED cells
             ELSE /\ cells' = [cells EXCEPT ![SheetName(w)] = WriteAtA1(@, rows)]
                  /\ pc' = IF w = "write_all_positions_to_sheet"
                           THEN At("main", "send_to_perplexity_for_analysis")
                           ELSE At("main", "completed")
                  /\ UNCHANGED <<exitCode, fatal>>
    /\ UNCHANGED <<run, credFile, tabs, ensureCalls, positions, fetchOutcome,
                   prompt, rows, analysis, postOutcome, fnArgs, fnResult>>

\* analysis = send_to_perplexity_for_analysis(positions, perplexity_api_key)
SendToPerplexity ==
    /\ pc = At("main", "send_to_perplexity_for_analysis")
    /\ \E outcome \in PostOutcomes, text \in PipelineTexts :
          LET out == send_to_perplexity_for_analysis(positions, outcome, text)
          IN  /\ IF generate_ai_trading_prompt(positions).raised
                 THEN /\ UNCHANGED log
                      /\ postOutcome' = "not_sent"
                 ELSE /\ log' = Append(log, Request("post", "", PostAnswered(outcome)))
                      /\ postOutcome' = outcome
              /\ IF out.raised
                 THEN /\ Fatal("upstream", "send_to_perplexity_for_analysis")
                      /\ UNCHANGED analysis
                 ELSE /\ analysis' = out.val
                      /\ pc' = At("write_analysis_to_sheet", "get")
                      /\ UNCHANGED <<exitCode, fatal>>
    /\ UNCHANGED <<run, credFile, tabs, cells, ensureCalls, positions, fetchOutcome,
                   prompt, rows, fnArgs, fnResult>>

\* The closing prints of __main__; the interpreter exits with status 0.
Complete ==
    /\ pc = At("main", "completed")
    /\ pc' = At("main", "exited")
    /\ exitCode' = 0
    /\ UNCHANGED <<run, fatal, credFile, tabs, cells, ensureCalls, log, positions,
                   fetchOutcome, prompt, rows, analysis, postOutcome, fnArgs, fnResult>>

\* The scheduler starts the script again: a new process, the same disk and
\* the same spreadsheet.
NextRun ==
    /\ pc = At("main", "exited")
    /\ run < MaxRuns
    /\ run' = run + 1
    /\ pc' = At("main", "load_api_keys")
    /\ exitCode' = -1
    /\ fatal' = NoFatal
    /\ log' = <<>>
    /\ positions' = <<>>
    /\ fetchOutcome' = "none"
    /\ prompt' = NoPrompt
    /\ rows' = <<>>
    /\ analysis' = PyNone
    /\ postOutcome' = "none"
    /\ UNCHANGED <<credFile, tabs, cells, ensureCalls, fnArgs, fnResult>>

Next ==
    \/ LoadApiKeys
    \/ LoadPerplexityApiKey
    \/ GetPositions
    \/ PrintAndSavePrompt
    \/ LoadGoogleCredentials
    \/ \E w \in Writers : EnsureGet(w)
    \/ \E w \in Writers : EnsureAdd(w)
    \/ BuildPositionRows
    \/ BuildAnalysisRows
    \/ \E w \in Writers : Clear(w)
    \/ \E w \in Writers : Update(w)
    \/ SendToPerplexity
    \/ Complete
    \/ NextRun

Spec == Init /\ [][Next]_vars

(***************************************************************************)
(* Direct calls of the pure functions, on inputs drawn from bounded sets.  *)
(***************************************************************************)
\* The rest of the state while a function is called directly.
Idle ==
    /\ run = 1
    /\ RunStart
    /\ credFile = "absent"
    /\ tabs = {}
    /\ cells = [t \in TabNames |-> <<>>]
    /\ ensureCalls = [t \in TabNames |-> <<>>]

NumberInputs ==
    {PyNone, PyInt(3), PyInt(-1), PyFloat(123, 10), PyFloat(1234, 1000), PyBigInt,
     PyStr("5"), PyStr("12.3"), PyStr("abc"), PyStr(""), PyList, PyObject}
NumberDefaults == {Zero, PyFloat(-1, 1)}
RoundDecimals == {2, 4, 8}

InitNum ==
    /\ Idle
    /\ pc = At("safe_float", "call")
    /\ fnArgs \in [value : NumberInputs, default : NumberDefaults, decimals : RoundDecimals]
    /\ fnResult = Return(PyNone)

CallSafeFloat ==
    /\ pc = At("safe_float", "call")
    /\ fnResult' = safe_float(fnArgs.value, fnArgs.default)
    /\ pc' = At("safe_float", "returned")
    /\ UNCHANGED <<run, exitCode, fatal, credFile, tabs, cells, ensureCalls, log,
                   positions, fetchOutcome, prompt, rows, analysis, postOutcome, fnArgs>>

CallSafeRound ==
    /\ pc = At("safe_float", "returned")
    /\ fnResult' = safe_round(fnArgs.value, fnArgs.decimals, fnArgs.default)
    /\ pc' = At("safe_round", "returned")
    /\ UNCHANGED <<run, exitCode, fatal, credFile, tabs, cells, ensureCalls, log,
                   positions, fetchOutcome, prompt, rows, analysis, postOutcome, fnArgs>>

NextNum == CallSafeFloat \/ CallSafeRound

SpecNum == InitNum /\ [][NextNum]_vars

InitGrid ==
    /\ Idle
    /\ pc = At("PositionsGrid", "call")
    /\ fnArgs \in [positions : SeqsUpTo(GridPositions, MaxGridPositions),
                   timestamp : {PyTime(1)}]
    /\ fnResult = [grid |-> Return(<<>>), summary |-> Return(NoSummary)]

CallPositionsGrid ==
    /\ pc = At("PositionsGrid", "call")
    /\ fnResult' = [fnResult EXCEPT
                       !.grid = PositionsGrid(fnArgs.positions, fnArgs.timestamp)]
    /\ pc' = At("format_all_positions_for_analysis", "call")
    /\ UNCHANGED <<run, exitCode, fatal, credFile, tabs, cells, ensureCalls, log,
                   positions, fetchOutcome, prompt, rows, analysis, postOutcome, fnArgs>>

CallFormatSummary ==
    /\ pc = At("format_all_positions_for_analysis", "call")
    /\ fnResult' = [fnResult EXCEPT
                       !.summary = format_all_positions_for_analysis(fnArgs.positions)]
    /\ pc' = At("format_all_positions_for_analysis", "returned")
    /\ UNCHANGED <<run, exitCode, fatal, credFile, tabs, cells, ensureCalls, log,
                   positions, fetchOutcome, prompt, rows, analysis, postOutcome, fnArgs>>

NextGrid == CallPositionsGrid \/ CallFormatSummary

SpecGrid == InitGrid /\ [][NextGrid]_vars

InitNarr ==
    /\ Idle
    /\ pc = At("AnalysisRows", "call")
    /\ fnArgs \in [text : {PyText(t) : t \in NarrativeTexts},
                   timestamp : {PyTime(1)}, now : {PyTime(1)}]
    /\ fnResult = Return(<<>>)

CallAnalysisRows ==
    /\ pc = At("AnalysisRows", "call")
    /\ fnResult' = AnalysisRows(fnArgs.text, fnArgs.timestamp, fnArgs.now)
    /\ pc' = At("AnalysisRows", "returned")
    /\ UNCHANGED <<run, exitCode, fatal, credFile, tabs, cells, ensureCalls, log,
                   positions, fetchOutcome, prompt, rows, analysis, postOutcome, fnArgs>>

NextNarr == CallAnalysisRows

SpecNarr == InitNarr /\ [][NextNarr]_vars

(***************************************************************************)
(* The claims.                                                             *)
(***************************************************************************)
SheetOps == {"get", "addSheet", "clear", "update"}
Requested(op, tab, ok) == \E i \in 1..Len(log) : log[i] = Request(op, tab, ok)
LastRequest == log[Len(log)]

\* C1: a run that exits non-zero on a configuration error (a missing exchange
\* key, text-generation key or spreadsheet credential) has issued no network
\* call before it exits.
C1_ConfigErrorBeforeAnyNetworkCall ==
    (exitCode = 1 /\ fatal.kind = "configuration") => log = <<>>

\* C2: when fetch_positions throws, get_positions returns the empty list and
\* does not raise, the run goes on, and once the update of the positions tab
\* has succeeded the tab holds the header row and the NO POSITIONS row.
C2_FetchFailureStillReports ==
    fetchOutcome = "threw" =>
        /\ positions = <<>>
        /\ fatal.at # "get_positions"
        /\ Requested("update", "All Positions", TRUE) =>
              LET tab == cells["All Positions"]
              IN  /\ Len(tab) >= 2
                  /\ Len(tab[1]) = 19 /\ tab[1][1] = PyStr("Timestamp")
                  /\ tab[1][2] = PyStr("Symbol") /\ tab[1][19] = PyStr("Percentage")
                  /\ Len(tab[2]) = 19 /\ tab[2][1] = PyTime(run)
                  /\ tab[2][2] = PyStr("NO POSITIONS")
                  /\ \A j \in 3..19 : tab[2][j] = PyStr("N/A")

\* A run in which the fetch threw and the positions tab was written.
C2_Witness ==
    /\ fetchOutcome = "threw"
    /\ Requested("update", "All Positions", TRUE)
    /\ cells["All Positions"][2][2] = PyStr("NO POSITIONS")

\* C3: send_to_perplexity_for_analysis never raises; when the POST gets a
\* non-2xx response, a network error or timeout, or a body without the
\* expected fields, it returns a sentinel error string, and the run goes on to
\* call write_analysis_to_sheet, which builds its rows from that string.
C3_PerplexityFailureGivesSentinel ==
    /\ fatal.at # "send_to_perplexity_for_analysis"
    /\ postOutcome \in PostFailures =>
          /\ analysis.t = "text"
          /\ analysis.c \in {ErrRequestText, ErrKeyText, ErrJsonText}
          /\ \/ pc.fn = "write_analysis_to_sheet"
             \/ pc = At("main", "completed")
             \/ /\ pc = At("main", "exited")
                /\ \E i \in 1..(Len(log) - 1) :
                      log[i].op = "post" /\ log[i + 1].op = "get"
          /\ pc \in {At("write_analysis_to_sheet", "clear"),
                     At("write_analysis_to_sheet", "update")} =>
                /\ Len(rows) = 5
                /\ rows[5] = <<analysis>>

\* A run whose POST failed and whose analysis writer is about to write the
\* sentinel string.
C3_Witness ==
    /\ postOutcome \in PostFailures
    /\ pc = At("write_analysis_to_sheet", "update")
    /\ rows[5] = <<PyText(ErrRequestText)>>

\* C4 as stated: the process exits non-zero only on configuration errors or
\* unexpected errors, never because an upstream API call (exchange,
\* spreadsheet, text generation) failed.
C4_UpstreamFailureNeverExits ==
    exitCode = 1 => fatal.kind \in {"configuration", "unexpected"}

\* C4 amended: a failure of the exchange fetch or of the text-generation POST
\* is downgraded at its call site (empty list, sentinel string) and the later
\* stages still run; a failed spreadsheet request is re-raised by the writer
\* and ends the run with exit status 1. The process exits non-zero only on a
\* configuration error, an unexpected error or a failed spreadsheet request.
C4_OnlySheetFailuresExit ==
    /\ exitCode = 1 =>
          \/ fatal.kind \in {"configuration", "unexpected"}
          \/ fatal.kind = "upstream" /\ fatal.at \in Writers
    /\ fatal.at \notin {"get_positions", "send_to_perplexity_for_analysis"}
    /\ Requested("fetch_positions", "", FALSE) => positions = <<>>
    /\ Requested("post", "", FALSE) => analysis \in SentinelStrings
    /\ \A i \in 1..Len(log) :
          (log[i].op \in SheetOps /\ ~log[i].ok) =>
              /\ i = Len(log)
              /\ exitCode = 1
              /\ fatal.kind = "upstream"
              /\ fatal.at \in Writers

\* A run in which the exchange fetch failed, the run went on, and a failed
\* spreadsheet request then ended it.
C4_Witness ==
    /\ fetchOutcome = "threw"
    /\ exitCode = 1
    /\ fatal.kind = "upstream"
    /\ log # <<>> /\ LastRequest.op \in SheetOps /\ ~LastRequest.ok

\* C5: in both writers the clear of the tab is issued before the update, and
\* the update only after the clear has succeeded; a failed tab lookup, clear
\* or update is re-raised (the run exits with status 1) with no retry, so no
\* request follows it, and with no rollback, so after a failed update the tab
\* stays cleared: every cell of the cleared range is blank.
C5_ClearThenUpdateNoRetryNoRollback ==
    /\ \A i \in 1..Len(log) :
          log[i].op = "update" =>
              /\ i > 1
              /\ log[i - 1] = Request("clear", log[i].tab, TRUE)
    /\ \A i \in 1..Len(log) :
          (log[i].op \in SheetOps /\ ~log[i].ok) =>
              /\ i = Len(log)
              /\ pc = At("main", "exited")
              /\ exitCode = 1
              /\ fatal.at \in Writers
              /\ log[i].tab # "" => SheetName(fatal.at) = log[i].tab
    /\ (log # <<>> /\ LastRequest.op = "update" /\ ~LastRequest.ok) =>
          LET tab == cells[LastRequest.tab]
          IN  \A i \in 1..Len(tab) : \A j \in 1..Len(tab[i]) :
                 (i <= ClearRows /\ j <= ClearColumns(fatal.at)) => tab[i][j] = Blank

\* The second run has cleared the positions tab that the first run filled,
\* its update has failed, and the process has exited: the tab is left empty.
C5_Witness ==
    /\ run = 2
    /\ Len(cells["Analysis"]) > 0 /\ cells["Analysis"][1][2] = PyTime(1)
    /\ exitCode = 1
    /\ log # <<>> /\ LastRequest = Request("update", "All Positions", FALSE)
    /\ cells["All Positions"] = <<>>

\* C6: against a spreadsheet whose tabs change only through these requests,
\* a call of ensure_sheet_exists issues addSheet only when no tab has the
\* title, after a successful call the tab exists, and any two successful
\* calls with the same title issue at most one addSheet between them.
C6_EnsureSheetIdempotent ==
    \A t \in TabNames :
        LET calls == ensureCalls[t]
        IN  /\ \A i \in 1..Len(calls) :
                  /\ calls[i].adds = 1 => ~calls[i].existed
                  /\ calls[i].ok => t \in tabs
            /\ \A i, j \in 1..Len(calls) :
                  (i < j /\ calls[i].ok /\ calls[j].ok) =>
                      calls[i].adds + calls[j].adds <= 1

\* Two successful calls for the positions tab: the first created the tab, the
\* second issued no addSheet.
C6_Witness ==
    /\ Len(ensureCalls["All Positions"]) = 2
    /\ ensureCalls["All Positions"][1] = EnsureCall(FALSE, 1, TRUE)
    /\ ensureCalls["All Positions"][2] = EnsureCall(TRUE, 0, TRUE)

GridReturned == pc.fn # "PositionsGrid" /\ pc.fn # "AnalysisRows" /\ fnArgs # NoCall
SummaryReturned == pc = At("format_all_positions_for_analysis", "returned")
NumericFields ==
    {"contracts", "unrealizedPnl", "realizedPnl", "notional", "entryPrice",
     "markPrice", "liquidationPrice", "initialMargin", "marginRatio", "percentage"}

\* C7: the grid of write_all_positions_to_sheet has the fixed header as its
\* first row, then one data row per position in input order, or the single
\* NO POSITIONS / N/A row when the list is empty; every row has the 19 cells of
\* the header, within the 20 columns the tab is created with. (The grid is not
\* built only when a numeric field is an int too large for a float.)
C7_GridShape ==
    (pc.fn = "format_all_positions_for_analysis") =>
        LET ps == fnArgs.positions
            g == fnResult.grid
        IN  IF g.raised
            THEN \E i \in 1..Len(ps) : \E k \in NumericFields : ps[i][k].t = "bigint"
            ELSE /\ Len(g.val[1]) = 19
                 /\ g.val[1][1] = PyStr("Timestamp") /\ g.val[1][2] = PyStr("Symbol")
                 /\ g.val[1][4] = PyStr("Status") /\ g.val[1][11] = PyStr("Total P&L")
                 /\ g.val[1][12] = PyStr("P&L %") /\ g.val[1][19] = PyStr("Percentage")
                 /\ \A r \in 1..Len(g.val) :
                       Len(g.val[r]) = Len(g.val[1]) /\ Len(g.val[r]) <= SheetColumnCount
                 /\ IF ps = <<>>
                    THEN /\ Len(g.val) = 2
                         /\ g.val[2][1] = fnArgs.timestamp
                         /\ g.val[2][2] = PyStr("NO POSITIONS")
                         /\ \A j \in 3..19 : g.val[2][j] = PyStr("N/A")
                    ELSE /\ Len(g.val) = Len(ps) + 1
                         /\ \A i \in 1..Len(ps) :
                               /\ g.val[i + 1][1] = fnArgs.timestamp
                               /\ g.val[i + 1][2] = ps[i].symbol
                               /\ g.val[i + 1][3] = ps[i].side
                               /\ g.val[i + 1][13] = ps[i].leverage

\* A grid of two data rows for two positions with different symbols.
C7_Witness ==
    /\ pc.fn = "format_all_positions_for_analysis"
    /\ ~fnResult.grid.raised
    /\ Len(fnArgs.positions) = 2
    /\ fnArgs.positions[1].symbol # fnArgs.positions[2].symbol
    /\ fnArgs.positions[2].contracts = PyInt(0)
    /\ Len(fnResult.grid.val) = 3
    /\ fnResult.grid.val[3][2] = fnArgs.positions[2].symbol

\* Whether the number c is within 0.005 of x / y (y > 0).
Near(c, x, y) ==
    LET diff == c.n * y - x * c.d
    IN  (IF diff >= 0 THEN diff ELSE -diff) * 200 <= c.d * y

\* Whether pct is total / notional * 100 to two decimals, or 0 without a
\* positive notional.
PctAgrees(pct, total, notional) ==
    IF notional.n > 0
    THEN Near(pct, total.n * notional.d * 100, total.d * notional.n)
    ELSE pct.n = 0

\* C10: for every position, total P&L is the normalized unrealized plus the
\* normalized realized P&L, and P&L% is total P&L / notional * 100 when the
\* normalized notional is positive and exactly 0 otherwise, in the sheet row
\* and in the entry of the prompt summary (which has such figures for the
\* active positions); neither computation divides by zero.
C10_PnlArithmetic ==
    (pc.fn = "format_all_positions_for_analysis") =>
        LET ps == fnArgs.positions
            g == fnResult.grid
            sm == fnResult.summary
            act == SelectSeq(ps, LAMBDA p : FieldFloat(p, "contracts").val.n > 0)
        IN  /\ g.exc # "ZeroDivisionError"
            /\ (~g.raised /\ ps # <<>>) =>
                  \A i \in 1..Len(ps) :
                     LET total == NumAdd(FieldFloat(ps[i], "unrealizedPnl").val,
                                         FieldFloat(ps[i], "realizedPnl").val)
                     IN  /\ NumEq(g.val[i + 1][11], total)
                         /\ PctAgrees(g.val[i + 1][12], total,
                                      FieldFloat(ps[i], "notional").val)
            /\ sm.exc # "ZeroDivisionError"
            /\ (SummaryReturned /\ ~sm.raised /\ ps # <<>>) =>
                  /\ Len(sm.val.active) = Len(act)
                  /\ \A i \in 1..Len(act) :
                        LET total == NumAdd(FieldFloat(act[i], "unrealizedPnl").val,
                                            FieldFloat(act[i], "realizedPnl").val)
                        IN  /\ sm.val.active[i].symbol = act[i].symbol
                            /\ sm.val.active[i].total_pnl.d = 100
                            /\ Near(sm.val.active[i].total_pnl, total.n, total.d)
                            /\ PctAgrees(sm.val.active[i].pnl_pct, total,
                                         FieldFloat(act[i], "notional").val)

\* An active position with notional 7 (P&L% 145.71) next to one with notional
\* 0 (P&L% 0), in the grid and in the summary.
C10_Witness ==
    /\ SummaryReturned
    /\ ~fnResult.grid.raised /\ ~fnResult.summary.raised
    /\ Len(fnArgs.positions) = 2
    /\ fnArgs.positions[1].notional = PyInt(7)
    /\ fnArgs.positions[2].notional = PyInt(0)
    /\ fnArgs.positions[2].contracts = PyFloat(5, 10)
    /\ fnResult.grid.val[2][12] = PyFloat(14571, 100)
    /\ fnResult.grid.val[3][12].n = 0
    /\ Len(fnResult.summary.val.active) = 2
    /\ fnResult.summary.val.active[1].pnl_pct.n = 14571
    /\ fnResult.summary.val.active[2].pnl_pct.n = 0

NarrativeReturned == pc = At("AnalysisRows", "returned")
Contains(str, sub) ==
    \E k \in 1..(Len(str) - Len(sub) + 1) : SubSeq(str, k, k + Len(sub) - 1) = sub
HasMarker(str) ==
    \/ StartsWith(str, <<"#">>)
    \/ StartsWith(str, <<"-", " ">>)
    \/ Contains(str, <<"*", "*">>)
    \/ Contains(str, <<"|">>)
NonBlank(str) == \E k \in 1..Len(str) : str[k] \notin Whitespace

\* Whether cell is the line without its leading and trailing whitespace.
IsTrimmed(cell, line) ==
    /\ cell # <<>>
    /\ cell[1] \notin Whitespace /\ cell[Len(cell)] \notin Whitespace
    /\ \E k \in 0..(Len(line) - Len(cell)) :
          /\ SubSeq(line, k + 1, k + Len(cell)) = cell
          /\ \A j \in 1..k : line[j] \in Whitespace
          /\ \A j \in (k + Len(cell) + 1)..Len(line) : line[j] \in Whitespace

NumericStrings == {"5", "12.3", "-2.1", "0"}
Unparsable(v) ==
    \/ v.t \in {"none", "list", "object"}
    \/ v.t = "str" /\ v.s \notin NumericStrings

\* C9: safe_float returns without raising for every input of any type, and
\* returns the default when the value is absent or cannot be parsed as a
\* number; safe_round never raises either.
C9_SafeFloatTotal ==
    /\ pc = At("safe_float", "returned") =>
          /\ ~fnResult.raised
          /\ Unparsable(fnArgs.value) => fnResult.val = fnArgs.default
    /\ pc = At("safe_round", "returned") => ~fnResult.raised

\* The number of requests of the run to one operation of one service.
Attempts(op, tab) ==
    Cardinality({i \in 1..Len(log) : log[i].op = op /\ log[i].tab = tab})

\* C11: within one run each external call is attempted at most once, and
\* exactly once in a run that completes: one fetch_positions, one POST, and
\* per writer one tab lookup, at most one addSheet, one clear and one update;
\* a request that has failed is never followed by the same request, and a
\* failed spreadsheet request is followed by no request at all.
C11_EveryCallAttemptedOnce ==
    /\ Attempts("fetch_positions", "") <= 1
    /\ Attempts("post", "") <= 1
    /\ Attempts("get", "") <= Cardinality(Writers)
    /\ \A t \in TabNames :
          /\ Attempts("addSheet", t) <= 1
          /\ Attempts("clear", t) <= 1
          /\ Attempts("update", t) <= 1
    /\ \A i \in 1..Len(log) : \A j \in (i + 1)..Len(log) :
          /\ ~log[i].ok => (log[j].op # log[i].op \/ log[j].tab # log[i].tab)
          /\ (log[i].op = "get" /\ log[j].op = "get") =>
                \E k \in (i + 1)..(j - 1) : log[k] = Request("update", "All Positions", TRUE)
          /\ log[i].op \in SheetOps => log[i].ok
    /\ exitCode = 0 =>
          /\ Attempts("fetch_positions", "") = 1
          /\ Attempts("post", "") = 1
          /\ Attempts("get", "") = Cardinality(Writers)
          /\ \A t \in TabNames : Attempts("clear", t) = 1 /\ Attempts("update", t) = 1

\* A run that completes after the fetch and the POST have both failed: each
\* was attempted once, and the eight requests of the run are all there are.
C11_Witness ==
    /\ exitCode = 0
    /\ Len(log) = 8
    /\ log[1] = Request("fetch_positions", "", FALSE)
    /\ log[5] = Request("post", "", FALSE)
    /\ Attempts("fetch_positions", "") = 1
    /\ Attempts("post", "") = 1

\* The symbols of the data rows of the grid whose Status cell is 'status'.
SymbolsWithStatus(grid, status) ==
    LET data == SubSeq(grid, 2, Len(grid))
        kept == SelectSeq(data, LAMBDA row : row[4] = PyStr(status))
    IN  [i \in 1..Len(kept) |-> kept[i][2]]

\* C12: for a non-empty position list the summary has every position of the
\* sheet in exactly one group: the entries under ACTIVE POSITIONS are the
\* positions whose Status cell is ACTIVE and the entries under CLOSED
\* POSITIONS are those whose Status cell is CLOSED, in the same order, so the
\* two groups together have as many entries as the sheet has data rows.
C12_GroupsAgreeWithStatus ==
    (SummaryReturned /\ fnArgs.positions # <<>>
        /\ ~fnResult.grid.raised /\ ~fnResult.summary.raised) =>
        LET g == fnResult.grid.val
            sm == fnResult.summary.val
        IN  /\ [i \in 1..Len(sm.active) |-> sm.active[i].symbol]
                  = SymbolsWithStatus(g, "ACTIVE")
            /\ [i \in 1..Len(sm.inactive) |-> sm.inactive[i].symbol]
                  = SymbolsWithStatus(g, "CLOSED")
            /\ Len(sm.active) + Len(sm.inactive) = Len(fnArgs.positions)

\* C13: after a writer's update has succeeded, the cells of its tab are
\* exactly the grid that the writer has just written: nothing that an earlier
\* run wrote is left in the tab.
C13_TabHoldsExactlyTheGridWritten ==
    (log # <<>> /\ LastRequest.op = "update" /\ LastRequest.ok) =>
        cells[LastRequest.tab] = Normalize(rows)

====
